---- MODULE Spec2Model ----
(***************************************************************************)
(* Healix medical chatbot: the conversation session (src/chatbot.py), the  *)
(* conversational RAG chain (src/rag_engine.py), the HTTP surface          *)
(* (app.py), batch indexing (src/vector_store.py) and ingestion            *)
(* (src/ingest.py, main.py).                                               *)
(*                                                                         *)
(* The generative model, the retriever, the vector store and the document  *)
(* loaders are external collaborators: each call to one of them either     *)
(* raises or returns a value, and the model chooses that outcome           *)
(* nondeterministically.                                                   *)
(***************************************************************************)
EXTENDS Integers, Sequences, FiniteSets, TLC

VARIABLES
    chat_history,   \* MedicalChatbot.chat_history: sequence of <<question, answer>>
    last,           \* observation of the most recent call on the session
    req,            \* app.py: the state of each in-flight HTTP request (one per worker thread)
    turn_meta,      \* app.py: for each turn of chat_history, what the request that appended it saw
    idx,            \* index_documents: the state of one run
    ing             \* ingest_documents / main --ingest: the state of one run

vars == <<chat_history, last, req, turn_meta, idx, ing>>

----------------------------------------------------------------------------
(* Bounds of the model *)

MaxTurns == 3          \* turns kept in chat_history before asking stops
MaxInFlight == 2       \* HTTP requests being served at once
MaxHttpTurns == 2      \* turns kept in chat_history on the HTTP surface

----------------------------------------------------------------------------
(* Values *)

Questions == {"", "q1", "q2"}
NonEmptyQuestions == Questions \ {""}
Rewrites == {"q1", "r1"}        \* what the rephrase chain may return
Answers == {"a1", "a2"}         \* what the answer chain may return
NoQuery == "<no retrieval>"

Apology == "I apologize, but I encountered an error while processing your request. Please try again."

Chunk1 ==
    [source |-> "guideline_diabetes.pdf", page |-> "0", type |-> "guideline",
     rank |-> 1, content |-> <<"Target", "\n", "A1C">>]

Chunk2 ==
    [source |-> "faq.csv", page |-> "N/A", type |-> "faq",
     rank |-> 3, content |-> <<"A1C", "\n", "\n", "test">>]

\* What retriever.invoke may return (k = 5 caps it; the index may hold fewer).
DocLists == {<<>>, <<Chunk1>>, <<Chunk2, Chunk1>>}

\* The outcome of the three external calls of one turn: X_ok = FALSE means the
\* call raises, otherwise it returns X.
Oracles ==
    [rw_ok : BOOLEAN, rw : Rewrites,
     rt_ok : BOOLEAN, rt : DocLists,
     sy_ok : BOOLEAN, sy : Answers]

----------------------------------------------------------------------------
(* src/chatbot.py, get_answer lines 25-28: history as LangChain messages *)

lc_history_of_last_turn(history) ==
    IF history = <<>> THEN <<>>
    ELSE << [role |-> "human", content |-> history[Len(history)][1]],
            [role |-> "ai", content |-> history[Len(history)][2]] >>

lc_history_of(history) ==
    [i \in 1..(2 * Len(history)) |->
        IF i % 2 = 1
        THEN [role |-> "human", content |-> history[(i + 1) \div 2][1]]
        ELSE [role |-> "ai", content |-> history[i \div 2][2]]]

(* src/rag_engine.py, format_docs *)

format_docs(docs) ==
    [i \in 1..Len(docs) |->
        [source |-> docs[i].source, page |-> docs[i].page,
         type |-> docs[i].type, rank |-> docs[i].rank,
         content |-> [j \in 1..Len(docs[i].content) |->
                        IF docs[i].content[j] = "\n" THEN " " ELSE docs[i].content[j]]]]

(* src/rag_engine.py, _history_aware_retrieve: rephrase only when there is  *)
(* history, then retrieve. Nothing is caught here: a raising call raises    *)
(* out of the function.                                                     *)

history_aware_retrieve_always_rephrase(inp, o) ==
    LET rewriteRaised == ~o.rw_ok
        question == IF o.rw_ok THEN o.rw ELSE inp.input
        retrieveCalled == ~rewriteRaised
        raised == rewriteRaised \/ ~o.rt_ok
    IN  [raised |-> raised,
         docs |-> IF raised THEN <<>> ELSE o.rt,
         rewriteCalled |-> TRUE,
         rewriteOk |-> o.rw_ok,
         retrieveCalled |-> retrieveCalled,
         retrieveOk |-> retrieveCalled /\ o.rt_ok,
         query |-> IF retrieveCalled THEN question ELSE NoQuery]

history_aware_retrieve_falls_back(inp, o) ==
    LET rewriteCalled == inp.chat_history # <<>>
        question == IF rewriteCalled /\ o.rw_ok THEN o.rw ELSE inp.input
    IN  [raised |-> ~o.rt_ok,
         docs |-> IF o.rt_ok THEN o.rt ELSE <<>>,
         rewriteCalled |-> rewriteCalled,
         rewriteOk |-> rewriteCalled /\ o.rw_ok,
         retrieveCalled |-> TRUE,
         retrieveOk |-> o.rt_ok,
         query |-> question]

history_aware_retrieve_empty_on_error(inp, o) ==
    LET rewriteCalled == inp.chat_history # <<>>
        rewriteRaised == rewriteCalled /\ ~o.rw_ok
        question == IF rewriteCalled /\ o.rw_ok THEN o.rw ELSE inp.input
        retrieveCalled == ~rewriteRaised
    IN  [raised |-> rewriteRaised,
         docs |-> IF retrieveCalled /\ o.rt_ok THEN o.rt ELSE <<>>,
         rewriteCalled |-> rewriteCalled,
         rewriteOk |-> rewriteCalled /\ o.rw_ok,
         retrieveCalled |-> retrieveCalled,
         retrieveOk |-> retrieveCalled /\ o.rt_ok,
         query |-> IF retrieveCalled THEN question ELSE NoQuery]

history_aware_retrieve(inp, o) ==
    LET rewriteCalled == inp.chat_history # <<>>
        rewriteRaised == rewriteCalled /\ ~o.rw_ok
        question == IF rewriteCalled /\ o.rw_ok THEN o.rw ELSE inp.input
        retrieveCalled == ~rewriteRaised
        raised == rewriteRaised \/ ~o.rt_ok
    IN  [raised |-> raised,
         docs |-> IF raised THEN <<>> ELSE o.rt,
         rewriteCalled |-> rewriteCalled,
         rewriteOk |-> rewriteCalled /\ o.rw_ok,
         retrieveCalled |-> retrieveCalled,
         retrieveOk |-> retrieveCalled /\ o.rt_ok,
         query |-> IF retrieveCalled THEN question ELSE NoQuery]

NoSynthInput == [input |-> "", chat_history |-> <<>>, context |-> <<>>]

(* src/rag_engine.py, _full_chain: retrieve, format, answer *)

full_chain(inp, o) ==
    LET r == history_aware_retrieve(inp, o)
        context_str == format_docs(r.docs)
        synthCalled == ~r.raised
        raised == r.raised \/ ~o.sy_ok
    IN  [raised |-> raised,
         answer |-> IF raised THEN "" ELSE o.sy,
         context |-> r.docs,
         rewriteCalled |-> r.rewriteCalled,
         rewriteOk |-> r.rewriteOk,
         retrieveCalled |-> r.retrieveCalled,
         retrieveOk |-> r.retrieveOk,
         query |-> r.query,
         synthCalled |-> synthCalled,
         synthOk |-> synthCalled /\ o.sy_ok,
         synth_in |-> IF synthCalled
                      THEN [input |-> inp.input, chat_history |-> inp.chat_history,
                            context |-> context_str]
                      ELSE NoSynthInput]

NoCalls ==
    [raised |-> FALSE, answer |-> "", context |-> <<>>,
     rewriteCalled |-> FALSE, rewriteOk |-> FALSE,
     retrieveCalled |-> FALSE, retrieveOk |-> FALSE, query |-> NoQuery,
     synthCalled |-> FALSE, synthOk |-> FALSE, synth_in |-> NoSynthInput]

(* src/chatbot.py, MedicalChatbot.get_answer as a function of the history   *)
(* it finds, the query and the outcome of the external calls: what it       *)
(* returns, whether it raises, the history it leaves, the calls it made.    *)

get_answer_result_no_except(history, query, o) ==
    IF query = ""
    THEN [ret |-> "", raised |-> FALSE, history |-> history,
          lc_history |-> <<>>, invoked |-> FALSE, resp |-> NoCalls]
    ELSE LET lc == lc_history_of(history)
             resp == full_chain([input |-> query, chat_history |-> lc], o)
         IN  IF resp.raised
             THEN [ret |-> "", raised |-> TRUE, history |-> history,
                   lc_history |-> lc, invoked |-> TRUE, resp |-> resp]
             ELSE [ret |-> resp.answer, raised |-> FALSE,
                   history |-> Append(history, <<query, resp.answer>>),
                   lc_history |-> lc, invoked |-> TRUE, resp |-> resp]

get_answer_result_no_guard(history, query, o) ==
    LET lc == lc_history_of(history)
        resp == full_chain([input |-> query, chat_history |-> lc], o)
    IN  IF resp.raised
        THEN [ret |-> Apology, raised |-> FALSE, history |-> history,
              lc_history |-> lc, invoked |-> TRUE, resp |-> resp]
        ELSE [ret |-> resp.answer, raised |-> FALSE,
              history |-> Append(history, <<query, resp.answer>>),
              lc_history |-> lc, invoked |-> TRUE, resp |-> resp]

get_answer_result(history, query, o) ==
    IF query = ""
    THEN [ret |-> "", raised |-> FALSE, history |-> history,
          lc_history |-> <<>>, invoked |-> FALSE, resp |-> NoCalls]
    ELSE LET lc == lc_history_of(history)
             resp == full_chain([input |-> query, chat_history |-> lc], o)
         IN  IF resp.raised
             THEN [ret |-> Apology, raised |-> FALSE, history |-> history,
                   lc_history |-> lc, invoked |-> TRUE, resp |-> resp]
             ELSE [ret |-> resp.answer, raised |-> FALSE,
                   history |-> Append(history, <<query, resp.answer>>),
                   lc_history |-> lc, invoked |-> TRUE, resp |-> resp]

(* src/chatbot.py, MedicalChatbot.clear_history as a function of the history *)

clear_history_result_keeps(history) == history

clear_history_result(history) == <<>>

----------------------------------------------------------------------------
(* The session used by one caller at a time (main.py --chat, test_bot.py)   *)

NoLast ==
    [op |-> "none", query |-> "", ret |-> "", raised |-> FALSE,
     before |-> <<>>, lc_history |-> <<>>, invoked |-> FALSE, resp |-> NoCalls,
     prev |-> "none", prevN |-> 0]

SessionInit ==
    /\ chat_history = <<>>
    /\ last = NoLast

get_answer(query, o) ==
    LET r == get_answer_result(chat_history, query, o)
    IN  /\ query # "" => Len(chat_history) < MaxTurns
        /\ chat_history' = r.history
        /\ last' = [op |-> "ask", query |-> query, ret |-> r.ret, raised |-> r.raised,
                    before |-> chat_history, lc_history |-> r.lc_history,
                    invoked |-> r.invoked, resp |-> r.resp,
                    prev |-> last.op,
                    prevN |-> IF last.op = "clear" THEN Len(last.before) ELSE 0]
        /\ UNCHANGED <<req, turn_meta, idx, ing>>

clear_history ==
    /\ chat_history' = clear_history_result(chat_history)
    /\ last' = [NoLast EXCEPT !.op = "clear", !.before = chat_history, !.prev = last.op]
    /\ UNCHANGED <<req, turn_meta, idx, ing>>

----------------------------------------------------------------------------
(* app.py: one module-level bot serves every request. chat and              *)
(* clear_history are plain (non-async) path functions, which FastAPI runs   *)
(* on worker threads, so requests are served at the same time; the session  *)
(* has no lock. A thread switch can fall anywhere in get_answer; the three  *)
(* steps below are the ones between which the shared history is read or     *)
(* written.                                                                 *)

Threads == 1..MaxInFlight

IdleReq ==
    [pc |-> "idle", query |-> "", seen |-> <<>>, lc_history |-> <<>>,
     raised |-> FALSE, answer |-> "", stale |-> FALSE, ret |-> ""]

InFlight == {t \in Threads : req[t].pc # "idle"}

HttpInit ==
    /\ req = [t \in Threads |-> IdleReq]
    /\ turn_meta = <<>>

\* POST /chat arrives: get_answer lines 18-28 (guard, history snapshot)
chat_begin(t, q) ==
    /\ req[t].pc = "idle"
    /\ q # "" => Len(chat_history) + Cardinality(InFlight) < MaxHttpTurns
    /\ req' = [req EXCEPT ![t] =
                IF q = ""
                THEN [IdleReq EXCEPT !.ret = ""]
                ELSE [IdleReq EXCEPT !.pc = "began", !.query = q,
                                     !.seen = chat_history,
                                     !.lc_history = lc_history_of(chat_history)]]
    /\ UNCHANGED <<chat_history, last, turn_meta, idx, ing>>

\* get_answer lines 30-36: the chain runs on the snapshot
chat_invoke(t, o) ==
    /\ req[t].pc = "began"
    /\ LET resp == full_chain([input |-> req[t].query,
                               chat_history |-> req[t].lc_history], o)
       IN  req' = [req EXCEPT ![t].pc = "invoked", ![t].raised = resp.raised,
                              ![t].answer = resp.answer]
    /\ UNCHANGED <<chat_history, last, turn_meta, idx, ing>>

\* get_answer lines 39-49: append and return, or the except branch
chat_finish(t) ==
    /\ req[t].pc = "invoked"
    /\ IF req[t].raised
       THEN /\ req' = [req EXCEPT ![t] = [IdleReq EXCEPT !.ret = Apology]]
            /\ UNCHANGED <<chat_history, turn_meta>>
       ELSE /\ chat_history' = Append(chat_history, <<req[t].query, req[t].answer>>)
            /\ turn_meta' = Append(turn_meta, [seen |-> req[t].seen, stale |-> req[t].stale])
            /\ req' = [req EXCEPT ![t] = [IdleReq EXCEPT !.ret = req[t].answer]]
    /\ UNCHANGED <<last, idx, ing>>

\* POST /clear: bot.clear_history() is one assignment
http_clear ==
    /\ chat_history' = clear_history_result(chat_history)
    /\ turn_meta' = <<>>
    /\ req' = [t \in Threads |->
                IF req[t].pc = "idle" THEN req[t] ELSE [req[t] EXCEPT !.stale = TRUE]]
    /\ UNCHANGED <<last, idx, ing>>

----------------------------------------------------------------------------
(* src/vector_store.py, index_documents. documents is the list of chunks;   *)
(* a chunk is named by its position in that list. A write to the vector     *)
(* store (Chroma.from_documents or add_documents) either raises or stores   *)
(* the whole batch.                                                         *)

BATCH_SIZE == 32
MaxDocs == 65          \* longest list of chunks handed to index_documents

Min(a, b) == IF a < b THEN a ELSE b

\* documents[i : i + BATCH_SIZE], as positions lo..hi of the list (1-based)
batch_of(i, total_docs) ==
    [lo |-> i + 1, hi |-> Min(i + BATCH_SIZE, total_docs)]

BatchChunks(b) == [k \in 1..(b.hi - b.lo + 1) |-> b.lo + k - 1]

\* lines 72-80: how the first attempt writes
first_write_method(i, dir_exists) ==
    IF i = 0 /\ ~dir_exists THEN "from_documents" ELSE "add_documents"

\* lines 70-87: after the first attempt, go on to the next batch or retry
after_first_attempt(ok) ==
    [pc |-> IF ok THEN "next" ELSE "retry", raised |-> FALSE]

\* lines 88-93: after the retry, go on to the next batch whatever happened
after_retry_raises(ok) ==
    [pc |-> IF ok THEN "next" ELSE "abort", raised |-> ~ok]

after_retry(ok) ==
    [pc |-> "next", raised |-> FALSE]

IdleIdx ==
    [pc |-> "idle", total_docs |-> 0, i |-> 0, dir_exists |-> FALSE,
     log |-> <<>>, store |-> <<>>, raised |-> FALSE]

IndexInit == idx = IdleIdx

\* where the for loop stands after the batch at i
Advance(x, step) ==
    IF step.pc = "abort" THEN [x EXCEPT !.pc = "done", !.raised = step.raised]
    ELSE IF step.pc = "retry" THEN [x EXCEPT !.pc = "retry"]
    ELSE IF x.i + BATCH_SIZE < x.total_docs
         THEN [x EXCEPT !.pc = "first", !.i = x.i + BATCH_SIZE]
         ELSE [x EXCEPT !.pc = "done"]

\* lines 51-63: the call, with the empty-list early return
index_documents(n, dir_exists) ==
    /\ idx.pc = "idle"
    /\ idx' = [IdleIdx EXCEPT !.pc = IF n = 0 THEN "done" ELSE "first",
                              !.total_docs = n, !.dir_exists = dir_exists]
    /\ UNCHANGED <<chat_history, last, req, turn_meta, ing>>

\* lines 64-87: the first attempt at the batch at i
attempt_batch(ok) ==
    /\ idx.pc = "first"
    /\ LET b == batch_of(idx.i, idx.total_docs)
           entry == [lo |-> b.lo, hi |-> b.hi, kind |-> "first", ok |-> ok,
                     method |-> first_write_method(idx.i, idx.dir_exists)]
           written == [idx EXCEPT !.log = Append(idx.log, entry),
                                  !.store = IF ok THEN idx.store \o BatchChunks(b)
                                            ELSE idx.store]
       IN  idx' = Advance(written, after_first_attempt(ok))
    /\ UNCHANGED <<chat_history, last, req, turn_meta, ing>>

\* lines 88-93: the retry of the batch at i
retry_batch(ok) ==
    /\ idx.pc = "retry"
    /\ LET b == batch_of(idx.i, idx.total_docs)
           entry == [lo |-> b.lo, hi |-> b.hi, kind |-> "retry", ok |-> ok,
                     method |-> "add_documents"]
           written == [idx EXCEPT !.log = Append(idx.log, entry),
                                  !.store = IF ok THEN idx.store \o BatchChunks(b)
                                            ELSE idx.store]
       IN  idx' = Advance(written, after_retry(ok))
    /\ UNCHANGED <<chat_history, last, req, turn_meta, ing>>

----------------------------------------------------------------------------
(* src/ingest.py, ingest_documents, and the --ingest branch of main.py.     *)
(* A file name is a sequence of pieces, the last one its extension; the     *)
(* loaders and the text splitter are external: a load raises or returns     *)
(* pages/rows, and the splitter cuts a page into a number of chunks that    *)
(* depends on the size of its cleaned text.                                 *)

MaxFiles == 2          \* entries of the data directory
MaxPages == 2          \* pages/rows one loader returns

FileNames ==
    { <<"Guideline", "_", "textbook", ".pdf">>,
      <<"notes", ".csv">>,
      <<"FAQ", "_", "diabetes", ".pdf">>,
      <<"notes", ".pdf">>,
      <<"guideline", ".txt">>,
      <<"data", ".CSV">> }

PageSizes == {"empty", "long"}
PageNames == <<"0", "1", "2", "3", "4", "5">>

\* str.lower() on one piece of a name
lower_piece(p) ==
    CASE p = "Guideline" -> "guideline"
      [] p = "FAQ" -> "faq"
      [] p = ".CSV" -> ".csv"
      [] OTHER -> p

lower(name) == [k \in 1..Len(name) |-> lower_piece(name[k])]

contains(name, piece) == \E k \in 1..Len(name) : name[k] = piece

endswith(name, ext) == Len(name) > 0 /\ name[Len(name)] = ext

determine_metadata_case_sensitive(file_path) ==
    IF contains(file_path, "guideline") THEN [type |-> "guideline", rank |-> 1]
    ELSE IF contains(file_path, "textbook") THEN [type |-> "textbook", rank |-> 2]
    ELSE IF contains(file_path, "faq") \/ endswith(file_path, ".csv")
         THEN [type |-> "faq", rank |-> 3]
    ELSE [type |-> "textbook", rank |-> 2]

\* lines 45-62
determine_metadata(file_path) ==
    LET filename == lower(file_path)
    IN  IF contains(filename, "guideline") THEN [type |-> "guideline", rank |-> 1]
        ELSE IF contains(filename, "textbook") THEN [type |-> "textbook", rank |-> 2]
        ELSE IF contains(filename, "faq") \/ endswith(file_path, ".csv")
             THEN [type |-> "faq", rank |-> 3]
        ELSE [type |-> "textbook", rank |-> 2]

\* What loader.load() returns for a file whose pages/rows have the given
\* sizes: PyPDFLoader numbers its pages, CSVLoader's rows carry no page.
loader_load(filename, sizes) ==
    [j \in 1..Len(sizes) |->
        [size |-> sizes[j],
         has_page |-> endswith(filename, ".pdf"),
         page |-> IF endswith(filename, ".pdf") THEN PageNames[j] ELSE "",
         unit |-> j]]

\* The extensions a loader exists for (lines 81-88)
Supported(filename) == endswith(filename, ".pdf") \/ endswith(filename, ".csv")

\* A load that raises, which is also what is recorded when no loader is called
NotLoaded == [ok |-> FALSE, sizes |-> <<>>]

LoadOutcomes ==
    {NotLoaded} \cup
    UNION {[ok : {TRUE}, sizes : [1..k -> PageSizes]] : k \in 0..MaxPages}

\* lines 78-110: the body of the loop for one directory entry
process_file_stops_on_error(documents, filename, out) ==
    IF ~endswith(filename, ".pdf") /\ ~endswith(filename, ".csv")
    THEN [documents |-> documents, status |-> "unsupported", raised |-> FALSE]
    ELSE IF ~out.ok
    THEN [documents |-> documents, status |-> "failed", raised |-> TRUE]
    ELSE [documents |-> documents \o
             [j \in 1..Len(out.sizes) |->
                [source |-> filename, type |-> determine_metadata(filename).type,
                 rank |-> determine_metadata(filename).rank,
                 page |-> IF loader_load(filename, out.sizes)[j].has_page
                          THEN loader_load(filename, out.sizes)[j].page ELSE "N/A",
                 size |-> out.sizes[j], unit |-> j]],
          status |-> "loaded", raised |-> FALSE]

process_file(documents, filename, out) ==
    LET md == determine_metadata(filename)
    IN  IF ~endswith(filename, ".pdf") /\ ~endswith(filename, ".csv")
        THEN [documents |-> documents, status |-> "unsupported", raised |-> FALSE]
        ELSE IF ~out.ok
        THEN [documents |-> documents, status |-> "failed", raised |-> FALSE]
        ELSE LET loaded_docs == loader_load(filename, out.sizes)
             IN  [documents |-> documents \o
                    [j \in 1..Len(loaded_docs) |->
                       [source |-> filename, type |-> md.type, rank |-> md.rank,
                        page |-> IF loaded_docs[j].has_page
                                 THEN loaded_docs[j].page ELSE "N/A",
                        size |-> loaded_docs[j].size, unit |-> loaded_docs[j].unit]],
                  status |-> "loaded", raised |-> FALSE]

\* RecursiveCharacterTextSplitter: chunks made of one cleaned page
ChunkCount(size) ==
    CASE size = "empty" -> 0
      [] size = "long" -> 2

RECURSIVE split_documents(_)
\* lines 112-123: every chunk carries a copy of its page's metadata
split_documents(documents) ==
    IF documents = <<>> THEN <<>>
    ELSE LET d == Head(documents)
         IN  [c \in 1..ChunkCount(d.size) |->
                [source |-> d.source, type |-> d.type, rank |-> d.rank,
                 page |-> d.page, unit |-> d.unit, part |-> c]]
             \o split_documents(Tail(documents))

NoneMessage == "No documents found or failed to load."
IndexedMessage == "Successfully indexed chunks."

\* main.py lines 43-50
main_ingest_report_counts(docs) ==
    [indexed |-> docs # <<>>, message |-> IndexedMessage, count |-> Len(docs)]

main_ingest_report(docs) ==
    IF docs # <<>>
    THEN [indexed |-> TRUE, message |-> IndexedMessage, count |-> Len(docs)]
    ELSE [indexed |-> FALSE, message |-> NoneMessage, count |-> 0]

NoReport == [indexed |-> FALSE, message |-> "", count |-> 0]

IdleIng ==
    [pc |-> "idle", exists |-> FALSE, listing |-> <<>>, pos |-> 1,
     documents |-> <<>>, files |-> <<>>, result |-> <<>>, raised |-> FALSE,
     report |-> NoReport]

IngestInit == ing = IdleIng

Listings ==
    UNION {{l \in [1..k -> FileNames] : \A a, b \in 1..k : a # b => l[a] # l[b]}
           : k \in 0..MaxFiles}

\* main --ingest calls ingest_documents(data_dir): lines 68-72
ingest_documents(exists, listing) ==
    /\ ing.pc = "idle"
    /\ ~exists => listing = <<>>
    /\ ing' = [IdleIng EXCEPT !.pc = IF exists THEN "loop" ELSE "returned",
                              !.exists = exists, !.listing = listing]
    /\ UNCHANGED <<chat_history, last, req, turn_meta, idx>>

\* lines 74-110: one iteration of the loop over os.listdir(data_dir)
ingest_file(out) ==
    /\ ing.pc = "loop"
    /\ ing.pos <= Len(ing.listing)
    /\ ~Supported(ing.listing[ing.pos]) => out = NotLoaded
    /\ LET filename == ing.listing[ing.pos]
           r == process_file(ing.documents, filename, out)
       IN  ing' = [ing EXCEPT
                     !.documents = r.documents,
                     !.files = Append(ing.files,
                                 [name |-> filename, ok |-> out.ok, sizes |-> out.sizes,
                                  status |-> r.status]),
                     !.pos = ing.pos + 1,
                     !.raised = r.raised,
                     !.pc = IF r.raised THEN "returned" ELSE "loop"]
    /\ UNCHANGED <<chat_history, last, req, turn_meta, idx>>

\* lines 112-123: chunk what was loaded and return
ingest_chunk ==
    /\ ing.pc = "loop"
    /\ ing.pos > Len(ing.listing)
    /\ ing' = [ing EXCEPT !.pc = "returned", !.result = split_documents(ing.documents)]
    /\ UNCHANGED <<chat_history, last, req, turn_meta, idx>>

\* main.py lines 43-50: index the chunks or report that there are none
main_ingest ==
    /\ ing.pc = "returned"
    /\ ~ing.raised
    /\ ing' = [ing EXCEPT !.pc = "reported", !.report = main_ingest_report(ing.result)]
    /\ UNCHANGED <<chat_history, last, req, turn_meta, idx>>

----------------------------------------------------------------------------
(* Specifications *)

\* The session used by one caller at a time
Init == SessionInit /\ HttpInit /\ IndexInit /\ IngestInit

Next ==
    \/ \E q \in Questions, o \in Oracles : get_answer(q, o)
    \/ clear_history

Spec == Init /\ [][Next]_vars

\* The session behind app.py
NextHttp ==
    \/ \E t \in Threads, q \in Questions : chat_begin(t, q)
    \/ \E t \in Threads, o \in Oracles : chat_invoke(t, o)
    \/ \E t \in Threads : chat_finish(t)
    \/ http_clear

SpecHttp == Init /\ [][NextHttp]_vars

\* One run of index_documents
NextIndex ==
    \/ \E n \in 0..MaxDocs, e \in BOOLEAN : index_documents(n, e)
    \/ \E ok \in BOOLEAN : attempt_batch(ok)
    \/ \E ok \in BOOLEAN : retry_batch(ok)

SpecIndex == Init /\ [][NextIndex]_vars

\* One run of main --ingest
NextIngest ==
    \/ \E e \in BOOLEAN, l \in Listings : ingest_documents(e, l)
    \/ \E out \in LoadOutcomes : ingest_file(out)
    \/ ingest_chunk
    \/ main_ingest

SpecIngest == Init /\ [][NextIngest]_vars

----------------------------------------------------------------------------
(* Properties of the session used by one caller at a time (Spec)            *)

Asked == last.op = "ask" /\ last.query # ""

\* C1: get_answer(q) with a non-empty q returns a string and never raises,
\* whichever step of the turn fails or succeeds, and the history afterwards
\* is the previous history with exactly the turn (q, returned answer)
\* appended, or exactly the previous history.
C1_AtomicTurn ==
    Asked =>
        /\ ~last.raised
        /\ last.ret \in Answers \cup {Apology}
        /\ \/ chat_history = Append(last.before, <<last.query, last.ret>>)
           \/ chat_history = last.before

\* A follow-up turn whose synthesis failed after rewrite and retrieval
\* succeeded.
C1_Witness ==
    /\ Asked
    /\ last.before # <<>>
    /\ last.resp.rewriteOk /\ last.resp.retrieveOk
    /\ last.resp.synthCalled /\ ~last.resp.synthOk
    /\ chat_history = last.before

\* C2: in every session state get_answer("") returns "" and leaves the
\* history unchanged, and calls neither the rewriter, the retriever nor the
\* generative model.
C2_EmptyQuestion ==
    last.op = "ask" /\ last.query = "" =>
        /\ last.ret = ""
        /\ ~last.raised
        /\ chat_history = last.before
        /\ ~last.invoked
        /\ ~last.resp.rewriteCalled
        /\ ~last.resp.retrieveCalled
        /\ ~last.resp.synthCalled

\* The empty question asked of an active session.
C2_Witness ==
    /\ last.op = "ask" /\ last.query = ""
    /\ Len(chat_history) >= 2

\* C3: clear_history after N turns leaves no turns, and the next get_answer
\* hands an empty history to the chain, whose rewrite step makes no model
\* call.
C3_ResetThenAsk ==
    /\ last.op = "clear" => chat_history = <<>>
    /\ last.op = "ask" /\ last.prev = "clear" /\ last.invoked =>
        /\ last.before = <<>>
        /\ last.lc_history = <<>>
        /\ ~last.resp.rewriteCalled

\* A question asked right after a reset of a session that had two turns or more.
C3_Witness ==
    /\ Asked
    /\ last.prev = "clear"
    /\ last.prevN >= 2
    /\ last.resp.retrieveCalled

\* C4: the rewrite model call happens in a turn exactly when the history
\* handed to the turn is non-empty, and with an empty history the retriever
\* is queried with the user's question itself.
C4_RewriteIffHistory ==
    last.op = "ask" /\ last.invoked =>
        /\ last.lc_history = lc_history_of(last.before)
        /\ last.resp.rewriteCalled <=> last.lc_history # <<>>
        /\ last.lc_history = <<>> =>
              last.resp.retrieveCalled /\ last.resp.query = last.query

\* A first turn: no history, the retriever queried with the question as asked.
C4_Witness ==
    /\ Asked
    /\ last.before = <<>>
    /\ last.prev = "none"
    /\ last.resp.retrieveOk
    /\ last.resp.query = last.query

RewriteFailed == Asked /\ last.resp.rewriteCalled /\ ~last.resp.rewriteOk

\* C5 as claimed: a failing rewrite call is caught at the rewrite step, the
\* retriever is queried with the original question, synthesis runs, and on
\* its success the synthesized answer is returned and the turn appended.
C5_RewriteFallback ==
    RewriteFailed =>
        /\ last.resp.retrieveCalled
        /\ last.resp.query = last.query
        /\ last.resp.retrieveOk => last.resp.synthCalled
        /\ last.resp.synthOk =>
              /\ last.ret = last.resp.answer
              /\ chat_history = Append(last.before, <<last.query, last.ret>>)

\* C5 as amended: a failing rewrite call ends the turn. Neither the
\* retriever nor the synthesizer is called, get_answer returns the fixed
\* apology without raising, and the history is unchanged.
C5_RewriteFailureEndsTurn ==
    RewriteFailed =>
        /\ ~last.resp.retrieveCalled
        /\ ~last.resp.synthCalled
        /\ ~last.raised
        /\ last.ret = Apology
        /\ chat_history = last.before

\* A follow-up question whose rewrite call failed.
C5_Witness ==
    /\ RewriteFailed
    /\ Len(last.before) >= 1
    /\ last.ret = Apology

RetrievalFailed == Asked /\ last.resp.retrieveCalled /\ ~last.resp.retrieveOk

\* C6 as claimed: a failing retrieval query becomes an empty retrieval
\* result, the context is assembled from no chunks, the synthesizer is
\* called with the question and the history, and on its success the turn is
\* appended.
C6_RetrievalFallback ==
    RetrievalFailed =>
        /\ last.resp.synthCalled
        /\ last.resp.synth_in =
              [input |-> last.query, chat_history |-> last.lc_history,
               context |-> <<>>]
        /\ last.resp.synthOk =>
              chat_history = Append(last.before, <<last.query, last.resp.answer>>)

\* C6 as amended: a failing retrieval query ends the turn. The synthesizer
\* is not called, get_answer returns the fixed apology without raising, and
\* the history is unchanged.
C6_RetrievalFailureEndsTurn ==
    RetrievalFailed =>
        /\ ~last.resp.synthCalled
        /\ ~last.raised
        /\ last.ret = Apology
        /\ chat_history = last.before

\* A question whose retrieval query failed, on a first turn or after a
\* rewrite that succeeded.
C6_Witness ==
    /\ RetrievalFailed
    /\ last.resp.rewriteOk
    /\ chat_history = last.before

----------------------------------------------------------------------------
(* Properties of the session behind app.py (SpecHttp)                       *)

\* C7: on the HTTP surface requests on a session do not overlap, so every
\* turn in the history was answered against exactly the turns that precede
\* it, and no turn of a request begun before a reset is in the history
\* after that reset.
C7_Serialized ==
    \A i \in 1..Len(chat_history) :
        /\ turn_meta[i].seen = SubSeq(chat_history, 1, i - 1)
        /\ ~turn_meta[i].stale

----------------------------------------------------------------------------
(* Properties of index_documents (SpecIndex)                                *)

Firsts == {p \in 1..Len(idx.log) : idx.log[p].kind = "first"}

NumBatches(n) == (n + BATCH_SIZE - 1) \div BATCH_SIZE

RECURSIVE StoredBy(_)
\* the chunks of the attempts that succeeded, in the order of the attempts
StoredBy(log) ==
    IF log = <<>> THEN <<>>
    ELSE LET e == log[Len(log)]
         IN  StoredBy(SubSeq(log, 1, Len(log) - 1)) \o
             (IF e.ok THEN [k \in 1..(e.hi - e.lo + 1) |-> e.lo + k - 1] ELSE <<>>)

\* C8: the chunks are written in consecutive batches of at most 32 in their
\* original order; a batch is attempted once and retried exactly once if
\* and only if the first attempt fails; a batch whose retry fails is given
\* up and the later batches are still attempted; index_documents does not
\* raise because of a batch failure; no batch is attempted more than twice.
C8_BatchesAndRetry ==
    /\ ~idx.raised
    /\ \A p \in 1..Len(idx.log) :
          LET e == idx.log[p]
          IN  /\ 1 <= e.lo /\ e.lo <= e.hi /\ e.hi <= idx.total_docs
              /\ e.hi - e.lo + 1 <= 32
              /\ e.kind = "retry" <=>
                    p > 1 /\ idx.log[p - 1].kind = "first" /\ ~idx.log[p - 1].ok
              /\ e.kind = "retry" /\ p > 1 =>
                    e.lo = idx.log[p - 1].lo /\ e.hi = idx.log[p - 1].hi
              /\ e.kind = "first" /\ ~e.ok =>
                    IF p = Len(idx.log) THEN idx.pc = "retry"
                    ELSE idx.log[p + 1].kind = "retry"
              /\ e.kind = "first" =>
                    LET k == Cardinality({f \in Firsts : f < p})
                    IN  /\ e.lo = 32 * k + 1
                        /\ e.hi = Min(32 * (k + 1), idx.total_docs)
              /\ Cardinality({r \in 1..Len(idx.log) : idx.log[r].lo = e.lo}) <= 2
    /\ \A p, r \in 1..Len(idx.store) : p < r => idx.store[p] < idx.store[r]
    /\ idx.store = StoredBy(idx.log)
    /\ idx.pc = "done" => Cardinality(Firsts) = NumBatches(idx.total_docs)

\* A run over three batches that gave up the first batch after its retry
\* failed and still wrote the last one.
C8_Witness ==
    /\ idx.pc = "done"
    /\ idx.total_docs > 2 * BATCH_SIZE
    /\ ~idx.log[1].ok /\ ~idx.log[2].ok
    /\ idx.log[Len(idx.log)].ok
    /\ idx.log[Len(idx.log)].lo = 2 * BATCH_SIZE + 1

----------------------------------------------------------------------------
(* Properties of ingestion (SpecIngest)                                     *)

Reported == ing.pc = "reported"

SupportedEntries == {k \in 1..Len(ing.listing) : Supported(ing.listing[k])}

\* the directory exists and holds no file a loader exists for
NoDocumentsFound == ing.exists /\ SupportedEntries = {}

\* the directory holds supported files and every one of them raised on loading
AllFailedToLoad ==
    /\ SupportedEntries # {}
    /\ Len(ing.files) = Len(ing.listing)
    /\ \A k \in SupportedEntries : ~ing.files[k].ok

NoneReport == [indexed |-> FALSE, message |-> NoneMessage, count |-> 0]

\* C9 as claimed: what ingest_documents returns and what --ingest reports
\* tell "no documents found" from "documents found but all failed to load":
\* the outcome of the second case is not the outcome of the first.
C9_Distinguishable ==
    Reported =>
        /\ NoDocumentsFound => ing.result = <<>> /\ ing.report = NoneReport
        /\ AllFailedToLoad => ~(ing.result = <<>> /\ ing.report = NoneReport)

\* C9 as amended: the two cases have the same outcome. In both,
\* ingest_documents returns the empty list and --ingest prints "No documents
\* found or failed to load." without indexing; --ingest reports indexed
\* chunks exactly when ingest_documents returned at least one chunk.
C9_SameOutcome ==
    Reported =>
        /\ NoDocumentsFound \/ AllFailedToLoad =>
              ing.result = <<>> /\ ing.report = NoneReport
        /\ ing.report.indexed <=> ing.result # <<>>
        /\ ing.report.indexed =>
              ing.report.message = IndexedMessage /\ ing.report.count = Len(ing.result)
        /\ ~ing.report.indexed => ing.report = NoneReport

\* A directory of two supported files that both raised on loading, reported.
C9_Witness ==
    /\ Reported
    /\ AllFailedToLoad
    /\ Cardinality(SupportedEntries) >= 2

RECURSIVE ExpectedUnits(_)
\* every page/row of every supported file whose load returned, in order
ExpectedUnits(files) ==
    IF files = <<>> THEN <<>>
    ELSE LET f == files[Len(files)]
         IN  ExpectedUnits(SubSeq(files, 1, Len(files) - 1)) \o
             (IF Supported(f.name) /\ f.ok
              THEN [j \in 1..Len(f.sizes) |-> <<f.name, j, f.sizes[j]>>]
              ELSE <<>>)

\* C10: for every directory and every set of files whose loading raises,
\* ingest_documents does not raise and goes through every entry; a file
\* that fails to load contributes no document, an unsupported file is
\* skipped without being an error, and a supported file that loads
\* contributes all its pages/rows whatever happened to the files around it.
C10_PartialFailureTolerant ==
    /\ ~ing.raised
    /\ ing.pc # "idle" => Len(ing.files) = ing.pos - 1
    /\ ing.pc \in {"returned", "reported"} => Len(ing.files) = Len(ing.listing)
    /\ \A k \in 1..Len(ing.files) :
          /\ ing.files[k].name = ing.listing[k]
          /\ ing.files[k].status = "unsupported" <=> ~Supported(ing.listing[k])
          /\ ing.files[k].status = "failed" <=>
                Supported(ing.listing[k]) /\ ~ing.files[k].ok
    /\ [k \in 1..Len(ing.documents) |->
          <<ing.documents[k].source, ing.documents[k].unit, ing.documents[k].size>>]
       = ExpectedUnits(ing.files)

\* A run that returned after a file that raised, followed by a file whose
\* two pages were loaded.
C10_Witness ==
    /\ ing.pc = "returned"
    /\ Len(ing.files) = 2
    /\ ing.files[1].status = "failed"
    /\ ing.files[2].status = "loaded" /\ Len(ing.files[2].sizes) = 2
    /\ Len(ing.documents) = 2

\* the classification of a file by its name, matched case-insensitively,
\* first match first
NameClass(name) ==
    LET n == lower(name)
    IN  CASE contains(n, "guideline") -> <<"guideline", 1>>
          [] ~contains(n, "guideline") /\ contains(n, "textbook") -> <<"textbook", 2>>
          [] ~contains(n, "guideline") /\ ~contains(n, "textbook")
             /\ (contains(n, "faq") \/ endswith(n, ".csv")) -> <<"faq", 3>>
          [] OTHER -> <<"textbook", 2>>

RECURSIVE PageChunksOf(_, _)
\* one entry <<file, type, rank>> per chunk cut from the pages of a file
PageChunksOf(name, sizes) ==
    IF sizes = <<>> THEN <<>>
    ELSE LET cls == NameClass(name)
         IN  [c \in 1..ChunkCount(Head(sizes)) |-> <<name, cls[1], cls[2]>>]
             \o PageChunksOf(name, Tail(sizes))

RECURSIVE ExpectedChunks(_)
\* the chunks of every file that was loaded, in order, each with its own
\* file's name and classification
ExpectedChunks(files) ==
    IF files = <<>> THEN <<>>
    ELSE LET f == Head(files)
         IN  (IF Supported(f.name) /\ f.ok THEN PageChunksOf(f.name, f.sizes) ELSE <<>>)
             \o ExpectedChunks(Tail(files))

\* names a data directory may also hold, beyond those the runs list
OtherNames ==
    { <<"textbook", "_", "FAQ", ".pdf">>,
      <<"textbook", ".csv">>,
      <<"FAQ", ".csv">>,
      <<"Guideline", ".csv">> }

\* every name a loader exists for is classified by determine_metadata as its
\* name says
ClassifiedAsNamed ==
    \A name \in FileNames \cup OtherNames :
        Supported(name) =>
            <<determine_metadata(name).type, determine_metadata(name).rank>>
            = NameClass(name)

\* C11: every chunk ingest_documents returns carries the source, type and
\* rank of the file it was cut from, (type, rank) being that file's
\* classification by name (guideline 1, else textbook 2, else faq 3 for
\* "faq" or a CSV, else textbook 2); the pair is always one of the three,
\* and no chunk carries the classification of another file of the run.
C11_ChunkClassification ==
    /\ \A k \in 1..Len(ing.result) :
          <<ing.result[k].type, ing.result[k].rank>> \in
              {<<"guideline", 1>>, <<"textbook", 2>>, <<"faq", 3>>}
    /\ ing.pc \in {"returned", "reported"} /\ ing.exists =>
          [k \in 1..Len(ing.result) |->
              <<ing.result[k].source, ing.result[k].type, ing.result[k].rank>>]
          = ExpectedChunks(ing.files)
    /\ ClassifiedAsNamed

\* A run that returned the chunks of two files of different classes, the
\* first one a guideline whose name is not in lower case.
C11_Witness ==
    /\ ing.pc = "returned"
    /\ Len(ing.result) >= 4
    /\ ing.result[1].source = <<"Guideline", "_", "textbook", ".pdf">>
    /\ ing.result[1].rank = 1
    /\ ing.result[Len(ing.result)].rank # 1

----------------------------------------------------------------------------
(* The history over a sequence of calls (Spec)                              *)

\* what a call hands to the chain is every turn the session holds, oldest
\* first, as the question followed by its answer
HandsOverAllTurns ==
    last'.op = "ask" /\ last'.invoked =>
        /\ Len(last'.lc_history) = 2 * Len(chat_history)
        /\ \A i \in 1..Len(chat_history) :
              /\ last'.lc_history[2 * i - 1] =
                    [role |-> "human", content |-> chat_history[i][1]]
              /\ last'.lc_history[2 * i] =
                    [role |-> "ai", content |-> chat_history[i][2]]
        /\ last'.resp.synthCalled =>
              last'.resp.synth_in.chat_history = last'.lc_history

\* the history is left as it was, or gets the turn of a successful answer
\* at its end, or is emptied by clear_history
AppendsOrClears ==
    \/ chat_history' = chat_history
    \/ /\ last'.op = "ask" /\ last'.resp.synthOk
       /\ chat_history' = Append(chat_history, <<last'.query, last'.resp.answer>>)
    \/ /\ last'.op = "clear"
       /\ chat_history' = <<>>

\* C12: over any sequence of get_answer and clear_history calls the history
\* changes only by one turn appended at its end after a successful answer
\* or by clear_history emptying it, and each turn hands the chain the whole
\* current history in order, two messages per turn (question, then answer).
C12_AppendOnlyFullReplay == [][AppendsOrClears /\ HandsOverAllTurns]_vars

\* A third turn answered successfully on top of two earlier turns.
C12_Witness ==
    /\ Asked
    /\ Len(last.before) = 2
    /\ Len(last.lc_history) = 4
    /\ last.resp.synthOk
    /\ Len(chat_history) = 3

====
